---- MODULE Spec2Model ----
(***************************************************************************)
(* Negotiator: the deterministic core of the negotiation-practice tool.    *)
(*                                                                         *)
(*   SpecGen    generate_deal_parameters as a pure function of its six     *)
(*              random draws (deal_generator.py and the copy in app.py).   *)
(*   SpecSeed   the process-wide random generator, seeding, and the        *)
(*              session-creation entry points that call the generators.    *)
(*   SpecAgree  validate_agreement (agreement.py and the copy in app.py)   *)
(*              and NegotiationEvaluator.evaluate over a transcript.       *)
(*   SpecEval   NegotiationEvaluator.evaluate over transcripts and terms.  *)
(*   SpecMain   the REST endpoints of backend/app/main.py.                 *)
(*   SpecStream the Streamlit chat and confirmation flow of app.py.        *)
(*   SpecRule   the rule-based seller and endpoints of backend/app.py.     *)
(*   SpecHaggle one session of backend/app.py over a long exchange.        *)
(*   SpecText   the extraction functions applied to one text.              *)
(*                                                                         *)
(* Money is kept in cents, a random draw is a grid index u in 0..GridN     *)
(* standing for random.random() = u / GridN, and a message content is a    *)
(* sequence of tokens (numbers >= 0 are numeric literals written as one    *)
(* run of digits, negative codes are words).                               *)
(***************************************************************************)
EXTENDS Integers, Sequences, FiniteSets, TLC

VARIABLES
    draws,        \* SpecGen: the six values random.uniform is about to return
    params,       \* SpecGen: the dictionary returned by the last generation
    lastOp,       \* name of the operation that ran last
    rng,          \* SpecSeed: state of the module-level generator of `random`
    rngOrigin,    \* SpecSeed: seed the generator state derives from (NoSeed: OS entropy)
    hashSalt,     \* SpecSeed: the per-process salt of the string hash
    service,      \* SpecSeed: which service the process runs
    genLog,       \* SpecSeed: one record per session created, in order
    history,      \* SpecAgree: the transcript (conversation_history)
    result,       \* SpecAgree: the triple returned by the last validate_agreement
    evaluation,   \* SpecAgree, SpecEval: what the last evaluate returned
    agreed_terms,  \* SpecEval: the agreed terms handed to the evaluator
    sessions_db,   \* SpecMain, SpecRule: the in-memory session store
    uuids,         \* SpecMain, SpecRule: how many session ids uuid4 has issued
    response,      \* SpecMain, SpecRule: what the last request returned
    request,       \* SpecMain, SpecRule: the endpoint and session id last asked for
    session_state  \* SpecStream: st.session_state of one browser session

vars == <<draws, params, lastOp, rng, rngOrigin, hashSalt, service, genLog,
          history, result, evaluation,
          agreed_terms, sessions_db, uuids, response, request, session_state>>

\* the state of the evaluator's caller and of the three front ends
svcVars == <<agreed_terms, sessions_db, uuids, response, request, session_state>>

\* a variable nothing has been stored in yet
Unset == [set |-> FALSE]

\* no evaluator input, no session, no request so far
SvcIdle ==
    /\ agreed_terms = Unset
    /\ sessions_db = <<>>
    /\ uuids = 0
    /\ response = Unset
    /\ request = Unset
    /\ session_state = Unset

(***************************************************************************)
(* Bounds                                                                  *)
(***************************************************************************)
GridN == 4

MaxGens == 3

MaxHist == 4

RngMod == 16

MaxSalt == 1

(***************************************************************************)
(* Arithmetic helpers                                                      *)
(***************************************************************************)
Cents == 100

Max2(a, b) == IF a >= b THEN a ELSE b

\* round(n / d) for n >= 0, d > 0: nearest, ties to even
RoundDiv(n, d) ==
    LET q == n \div d
        r == n % d
    IN  IF 2 * r < d THEN q
        ELSE IF 2 * r > d THEN q + 1
        ELSE IF q % 2 = 0 THEN q ELSE q + 1

\* random.uniform(lo, hi) = lo + (hi - lo) * random(), as a numerator over GridN
UniformNum(lo, hi, u) == lo * GridN + (hi - lo) * u

(***************************************************************************)
(* generate_deal_parameters, backend/app/services/deal_generator.py        *)
(***************************************************************************)
MIN_PRICE_DIFF == 5

MIN_DELIVERY_DIFF == 3

RESERVATION_FLOOR_PCT == 50

NoParams == [impl |-> "none"]

\* round(random.uniform(5, 30) * 10, 2), in cents
OpeningPrice(u) == RoundDiv(10 * Cents * UniformNum(5, 30, u), GridN)

\* int(round(random.uniform(4, 10) * 10))
OpeningDelivery(u) == RoundDiv(10 * UniformNum(4, 10, u), GridN)

\* random.uniform(0.15, 0.25) and random.uniform(0.10, 0.15), in percent over GridN
Reduction1(u) == UniformNum(15, 25, u)

Reduction2(u) == UniformNum(10, 15, u)

\* round(level * (1 - reduction), 2) and int(round(level * (1 - reduction)))
Reduce(level, red) == RoundDiv(level * (100 * GridN - red), 100 * GridN)

RepairPrice_skipped(upper, level) == level

\* if level >= upper - MIN_PRICE_DIFF: level = upper - MIN_PRICE_DIFF
RepairPrice(upper, level) ==
    IF level >= upper - MIN_PRICE_DIFF * Cents
    THEN upper - MIN_PRICE_DIFF * Cents
    ELSE level

\* if level >= upper - MIN_DELIVERY_DIFF: level = upper - MIN_DELIVERY_DIFF
RepairDelivery(upper, level) ==
    IF level >= upper - MIN_DELIVERY_DIFF
    THEN upper - MIN_DELIVERY_DIFF
    ELSE level

FloorReservation_high(opening, reservation) ==
    Max2(reservation, RoundDiv(opening * 90, 100))

\* reservation_price = max(reservation_price, round(opening_price * RESERVATION_FLOOR, 2))
FloorReservation(opening, reservation) ==
    Max2(reservation, RoundDiv(opening * RESERVATION_FLOOR_PCT, 100))

generate_deal_parameters(d) ==
    LET opening_price == OpeningPrice(d[1])
        target_0      == Reduce(opening_price, Reduction1(d[2]))
        reservation_0 == Reduce(target_0, Reduction2(d[3]))
        target_price  == RepairPrice(opening_price, target_0)
        reservation_1 == RepairPrice(target_price, reservation_0)
        reservation_price == FloorReservation(opening_price, reservation_1)
        opening_delivery == OpeningDelivery(d[4])
        dtarget_0     == Reduce(opening_delivery, Reduction1(d[5]))
        dreserv_0     == Reduce(dtarget_0, Reduction2(d[6]))
        target_delivery == RepairDelivery(opening_delivery, dtarget_0)
        reservation_delivery == RepairDelivery(target_delivery, dreserv_0)
    IN  [impl |-> "deal_generator",
         price |-> [opening |-> opening_price, target |-> target_price,
                    reservation |-> reservation_price],
         delivery |-> [opening |-> opening_delivery, target |-> target_delivery,
                       reservation |-> reservation_delivery],
         volume |-> [standard |-> 10000, tier_1_threshold |-> 20000,
                     tier_2_threshold |-> 50000]]

(***************************************************************************)
(* generate_deal_parameters, app.py (the Streamlit copy)                   *)
(***************************************************************************)
\* round(upper - max(MIN_PRICE_DIFF, upper * pct), 2) when the gap is too small
AppRepairPrice(upper, level, pct) ==
    IF level >= upper - MIN_PRICE_DIFF * Cents
    THEN RoundDiv(100 * upper - Max2(100 * MIN_PRICE_DIFF * Cents, upper * pct), 100)
    ELSE level

\* max(lowest, upper - max(MIN_DELIVERY_DIFF, int(upper * pct)))
AppRepairDelivery(upper, level, pct, lowest) ==
    IF level >= upper - MIN_DELIVERY_DIFF
    THEN Max2(lowest, upper - Max2(MIN_DELIVERY_DIFF, (upper * pct) \div 100))
    ELSE level

app_generate_deal_parameters(d) ==
    LET opening_price == OpeningPrice(d[1])
        target_0      == Reduce(opening_price, Reduction1(d[2]))
        reservation_0 == Reduce(target_0, Reduction2(d[3]))
        target_price  == AppRepairPrice(opening_price, target_0, 15)
        reservation_1 == AppRepairPrice(target_price, reservation_0, 10)
        reservation_price == FloorReservation(opening_price, reservation_1)
        opening_delivery == OpeningDelivery(d[4])
        dtarget_0     == Reduce(opening_delivery, Reduction1(d[5]))
        dreserv_0     == Reduce(dtarget_0, Reduction2(d[6]))
        target_delivery == AppRepairDelivery(opening_delivery, dtarget_0, 15, 5)
        reservation_delivery == AppRepairDelivery(target_delivery, dreserv_0, 10, 3)
    IN  [impl |-> "app",
         price |-> [opening |-> opening_price, target |-> target_price,
                    reservation |-> reservation_price],
         delivery |-> [opening |-> opening_delivery, target |-> target_delivery,
                       reservation |-> reservation_delivery]]

(***************************************************************************)
(* SpecGen: the generators applied to every combination of draws           *)
(***************************************************************************)
NoSeed == -1

None == -1

NoTerms == [price |-> None, delivery |-> None, volume |-> None]

\* the words of a content the text patterns look for (numbers are >= 0)
DOLLAR == -1

DAYS == -2

UNITS == -3

KILO == -4

AGREE == -5

ORDER == -6

WORD == -7

NoResult == [is_valid |-> FALSE, missing |-> <<>>, terms |-> NoTerms]

NoEvaluation == [negotiation_rounds |-> -1]

InitGen ==
    /\ SvcIdle
    /\ draws \in [1..6 -> 0..GridN]
    /\ params = NoParams
    /\ lastOp = "init"
    /\ rng = 0
    /\ rngOrigin = NoSeed
    /\ hashSalt = 0
    /\ service = "none"
    /\ genLog = <<>>
    /\ history = <<>>
    /\ result = NoResult
    /\ evaluation = NoEvaluation

GenerateBackend ==
    /\ params' = generate_deal_parameters(draws)
    /\ lastOp' = "generate_deal_parameters"
    /\ UNCHANGED <<draws, rng, rngOrigin, hashSalt, service, genLog,
                   history, result, evaluation>>
    /\ UNCHANGED svcVars

GenerateApp ==
    /\ params' = app_generate_deal_parameters(draws)
    /\ lastOp' = "app_generate_deal_parameters"
    /\ UNCHANGED <<draws, rng, rngOrigin, hashSalt, service, genLog,
                   history, result, evaluation>>
    /\ UNCHANGED svcVars

NextGen == GenerateBackend \/ GenerateApp

SpecGen == InitGen /\ [][NextGen]_vars

Generated == params.impl # "none"

\* C1: every generated result has reservation < target < opening for price and
\* for delivery, and a price reservation of at least half the opening price.
C1_Ordering ==
    Generated =>
        /\ params.price.reservation < params.price.target
        /\ params.price.target < params.price.opening
        /\ params.delivery.reservation < params.delivery.target
        /\ params.delivery.target < params.delivery.opening
        /\ 2 * params.price.reservation >= params.price.opening

\* a generation whose price reservation was set by the minimum-gap repair
C1_Witness ==
    /\ Generated
    /\ Reduce(params.price.target, Reduction2(draws[3]))
          >= params.price.target - MIN_PRICE_DIFF * Cents
    /\ params.price.reservation < params.price.target

\* C2: adjacent levels of every generated result are at least the minimum gap
\* apart (5 dollars for price, 3 days for delivery), the price reservation
\* being the value left after the 50% floor.
C2_MinGaps ==
    Generated =>
        /\ params.price.opening - params.price.target >= MIN_PRICE_DIFF * Cents
        /\ params.price.target - params.price.reservation >= MIN_PRICE_DIFF * Cents
        /\ params.delivery.opening - params.delivery.target >= MIN_DELIVERY_DIFF
        /\ params.delivery.target - params.delivery.reservation >= MIN_DELIVERY_DIFF

\* a generation where the gap between target and reservation is exactly the
\* minimum, for price and for delivery
C2_Witness ==
    /\ Generated
    /\ params.price.target - params.price.reservation = MIN_PRICE_DIFF * Cents
    /\ params.delivery.target - params.delivery.reservation = MIN_DELIVERY_DIFF

(***************************************************************************)
(* The module-level generator of `random` and the string hash              *)
(***************************************************************************)
\* the seed range 2**32 of hash(student_id) % (2**32), scaled to 2**16 so that the
\* products below stay within the checker's integers
SeedRange == 65536

\* random.seed(seed): the state is a function of the seed alone
RandomSeed(seed) == seed % RngMod

\* one call of random.random(): the state it leaves ...
RandomNext(state) == (5 * state + 3) % RngMod

\* ... and the value it returns, as a grid index
RandomValue(state) == state % (GridN + 1)

RECURSIVE Advance(_, _)
\* the state after n calls of random.random()
Advance(state, n) == IF n = 0 THEN state ELSE Advance(RandomNext(state), n - 1)

\* the values of the next n calls
DrawSeq(state, n) == [k \in 1..n |-> RandomValue(Advance(state, k))]

\* random.randint(a, b)
RandInt(a, b, u) == a + ((b - a) * u) \div GridN

RECURSIVE StrHashFrom(_, _)
StrHashFrom(h, s) ==
    IF s = <<>> THEN h ELSE StrHashFrom((h * 31 + Head(s)) % SeedRange, Tail(s))

\* hash(student_id): salted per process, fixed within one process
StrHash(salt, s) == StrHashFrom(salt * 7919, s)

RECURSIVE SumOrd(_)
\* sum(ord(c) for c in student_id)
SumOrd(s) == IF s = <<>> THEN 0 ELSE Head(s) + SumOrd(Tail(s))

\* student ids as character codes; <<>> is the empty or absent id
StudentIds == {<<65>>, <<66>>, <<65, 66>>, <<66, 65>>}

SeededState_ignored(seed, state) == state

\* deal_generator.py: if seed is not None: random.seed(seed)
SeededState(seed, state) == IF seed # NoSeed THEN RandomSeed(seed) ELSE state

\* main.py: seed = hash(student_id) % (2**32) if student_id else None
StudentSeed(student_id) ==
    IF student_id # <<>> THEN StrHash(hashSalt, student_id) % SeedRange ELSE NoSeed

\* int(base_price * 0.7) for 50 <= base_price <= 100: the float product is the
\* exact one except at 90, where it is 62.99999999999999
Int07(base_price) == IF base_price = 90 THEN 62 ELSE (base_price * 7) \div 10

\* backend/app.py: DealParameters.__init__, from its five integer draws
DealParameters(d) ==
    LET base_price      == RandInt(50, 100, d[1])
        target_quantity == RandInt(500, 2000, d[2])
        delivery_days   == RandInt(30, 90, d[3])
    IN  [impl |-> "DealParameters",
         base_price |-> base_price,
         min_price |-> Int07(base_price),
         target_quantity |-> target_quantity,
         min_quantity |-> target_quantity \div 2,
         delivery_days |-> delivery_days,
         min_delivery |-> (delivery_days * 6) \div 10,
         quality_grade |-> RandInt(0, 2, d[4]),
         warranty_months |-> RandInt(6, 24, d[5])]

(***************************************************************************)
(* SpecSeed: sessions created one after another in one process             *)
(***************************************************************************)
InitSeed ==
    /\ SvcIdle
    /\ draws = <<>>
    /\ params = NoParams
    /\ lastOp = "init"
    /\ rng \in 0..(RngMod - 1)
    /\ rngOrigin = NoSeed
    /\ hashSalt \in 0..MaxSalt
    /\ service \in {"main", "rule"}
    /\ genLog = <<>>
    /\ history = <<>>
    /\ result = NoResult
    /\ evaluation = NoEvaluation

\* the seller's opening message: '... Our standard offering is 10,000 units ...
\* What specific requirements does your company have for this order?'
Greeting == <<WORD, 10000, UNITS, ORDER>>

\* the endpoint a request is for and the session id it names
Request(op, session_id) == [op |-> op, session_id |-> session_id]

\* str(uuid.uuid4()): an id no earlier call has returned
NewSessionId == uuids + 1

\* the dictionary main.py stores under the new session id
NewSession(deal_params) ==
    [deal_params |-> deal_params,
     history |-> <<[role |-> "assistant", content |-> Greeting]>>,
     state |-> "NEGOTIATING"]

\* sessions_db[session_id] = session
Store(db, session_id, session) ==
    [k \in DOMAIN db \cup {session_id} |-> IF k = session_id THEN session ELSE db[k]]

\* main.py POST /api/sessions/new
create_new_session(student_id) ==
    /\ service = "main"
    /\ Len(genLog) < MaxGens
    /\ LET seed   == StudentSeed(student_id)
           start  == SeededState(seed, rng)
           origin == IF seed # NoSeed THEN seed ELSE rngOrigin
           d      == DrawSeq(start, 6)
       IN  /\ rng' = Advance(start, 6)
           /\ rngOrigin' = origin
           /\ draws' = d
           /\ params' = generate_deal_parameters(d)
           /\ genLog' = Append(genLog, [student_id |-> student_id, seed |-> seed,
                                        origin |-> origin,
                                        params |-> generate_deal_parameters(d)])
           /\ sessions_db' = Store(sessions_db, NewSessionId,
                                   NewSession(generate_deal_parameters(d)))
    /\ uuids' = NewSessionId
    /\ response' = [status |-> 200, session_id |-> NewSessionId]
    /\ request' = Request("create_new_session", None)
    /\ lastOp' = "create_new_session"
    /\ UNCHANGED <<hashSalt, service, history, result, evaluation, agreed_terms,
                   session_state>>

\* what Alex says: the sentence chosen and the numbers put into it
Reply(kind, nums) == [kind |-> kind, nums |-> nums]

\* self.messages.append({"role": ..., "content": ...})
AddMessage(messages, role, content) ==
    Append(messages, [role |-> role, content |-> content])

\* backend/app.py: NegotiationSession.__init__
NegotiationSession(session_id, student_id, deal_params) ==
    [session_id |-> session_id,
     student_id |-> student_id,
     deal_params |-> deal_params,
     messages |-> AddMessage(<<>>, "alex",
                     Reply("greeting", <<deal_params.base_price,
                                         deal_params.target_quantity,
                                         deal_params.delivery_days,
                                         deal_params.warranty_months>>)),
     turn_count |-> 0,
     status |-> "active",
     current_offer |-> [present |-> FALSE, price |-> None, quantity |-> None,
                        delivery |-> None],
     deal_closed |-> FALSE,
     alex_price |-> deal_params.base_price,
     alex_quantity |-> deal_params.target_quantity,
     alex_delivery |-> deal_params.delivery_days,
     concession_count |-> 0,
     max_concessions |-> 5]

\* backend/app.py POST /api/sessions/new: NegotiationSession -> DealParameters
create_session(student_id) ==
    /\ service = "rule"
    /\ Len(genLog) < MaxGens
    /\ LET seed  == SumOrd(student_id)
           start == RandomSeed(seed)
           d     == DrawSeq(start, 5)
       IN  /\ draws' = d
           /\ params' = DealParameters(d)
           /\ genLog' = Append(genLog, [student_id |-> student_id, seed |-> seed,
                                        origin |-> seed,
                                        params |-> DealParameters(d)])
           /\ sessions_db' = Store(sessions_db, NewSessionId,
                                   NegotiationSession(NewSessionId, student_id,
                                                      DealParameters(d)))
           /\ response' = [status |-> 200, session_id |-> NewSessionId,
                           student_id |-> student_id,
                           initial_message |->
                               NegotiationSession(NewSessionId, student_id,
                                                  DealParameters(d)).messages[1]]
    /\ uuids' = NewSessionId
    \* random.seed() with no argument: reseeded from OS entropy
    /\ rng' \in 0..(RngMod - 1)
    /\ rngOrigin' = NoSeed
    /\ request' = Request("create_session", None)
    /\ lastOp' = "create_session"
    /\ UNCHANGED <<hashSalt, service, history, result, evaluation, agreed_terms,
                   session_state>>

NextSeed ==
    \/ \E student_id \in StudentIds \cup {<<>>} : create_new_session(student_id)
    \/ \E student_id \in StudentIds \cup {<<>>} : create_session(student_id)

SpecSeed == InitSeed /\ [][NextSeed]_vars

\* C3: generations with the same seed return equal results whatever ran in
\* between, so two sessions of one process created for the same student id
\* carry identical deal parameters.
C3_SeedDeterminism ==
    \A i, j \in DOMAIN genLog :
        /\ (genLog[i].seed # NoSeed /\ genLog[i].seed = genLog[j].seed)
              => genLog[i].params = genLog[j].params
        /\ (genLog[i].student_id # <<>> /\ genLog[i].student_id = genLog[j].student_id)
              => genLog[i].params = genLog[j].params

\* two sessions for one student id with a different generation between them
C3_Witness ==
    /\ Len(genLog) >= 3
    /\ genLog[1].student_id # <<>>
    /\ genLog[1].student_id = genLog[3].student_id
    /\ genLog[2].student_id # genLog[1].student_id
    /\ genLog[2].params # genLog[1].params

\* C4: a generation without a seed draws from a generator state that no
\* earlier seed has fixed.
C4_UnseededUnpredictable ==
    \A i \in DOMAIN genLog :
        genLog[i].seed = NoSeed => genLog[i].origin = NoSeed

(***************************************************************************)
(* Term extraction, backend/app/services/extraction.py (same text in       *)
(* agreement.py and app.py).  A content is a sequence of tokens: a number  *)
(* >= 0 is a numeric literal, the codes below are the words the patterns   *)
(* look for.                                                               *)
(***************************************************************************)

MinOf(S) == CHOOSE x \in S : \A y \in S : x <= y

MaxOf(S) == CHOOSE x \in S : \A y \in S : x >= y

\* positions where a numeric literal is directly followed by the word w
NumberBefore(text, w) ==
    {i \in 1..(Len(text) - 1) : text[i] >= 0 /\ text[i + 1] = w}

\* re.search(r'\$\s*([0-9][0-9,]*(?:\.\d+)?)', text): first number after a '$'
extract_price(text) ==
    LET hits == {i \in 1..(Len(text) - 1) : text[i] = DOLLAR /\ text[i + 1] >= 0}
    IN  IF hits = {} THEN None ELSE text[MinOf(hits) + 1]

\* re.search(r'(\d+)\s*days?', text.lower()): first number followed by 'day(s)'
extract_delivery(text) ==
    LET hits == NumberBefore(text, DAYS)
    IN  IF hits = {} THEN None ELSE text[MinOf(hits)]

RECURSIVE FirstGroup(_)
\* what (\d{1,3}(?:,\d{3})*|\d+) with nothing required after it matches of a
\* number written as one run of digits: its first alternative succeeds on the
\* leading three digits, so the second is never tried
FirstGroup(n) == IF n < 1000 THEN n ELSE FirstGroup(n \div 10)

\* three patterns in order: '<n> thousand|k', '<n> unit(s)', first bare number
\* of a text holding a volume keyword; in the first two the word that must
\* follow makes the pattern take the whole number
extract_volume(text) ==
    LET m_thousand == NumberBefore(text, KILO)
        m_units    == NumberBefore(text, UNITS)
        m_num      == {i \in 1..Len(text) : text[i] >= 0}
        keyword    == \E i \in 1..Len(text) : text[i] \in {UNITS, ORDER}
    IN  IF m_thousand # {} THEN text[MinOf(m_thousand)] * 1000
        ELSE IF m_units # {} THEN text[MinOf(m_units)]
        ELSE IF keyword /\ m_num # {} THEN FirstGroup(text[MinOf(m_num)])
        ELSE None

Extract(text) ==
    [price |-> extract_price(text), delivery |-> extract_delivery(text),
     volume |-> extract_volume(text)]

\* sum(1 for x in (price, delivery, volume) if x is not None)
Count(t) ==
    (IF t.price # None THEN 1 ELSE 0) + (IF t.delivery # None THEN 1 ELSE 0)
        + (IF t.volume # None THEN 1 ELSE 0)

(***************************************************************************)
(* validate_agreement, backend/app/services/agreement.py                   *)
(***************************************************************************)
\* any(keyword in user_content for keyword in agreement_keywords)
HasKeyword(text) == \E i \in 1..Len(text) : text[i] = AGREE

\* [k for k, v in agreed_terms.items() if v is None]
MissingTerms(t) ==
    (IF t.price = None THEN <<"price">> ELSE <<>>)
        \o (IF t.delivery = None THEN <<"delivery">> ELSE <<>>)
        \o (IF t.volume = None THEN <<"volume">> ELSE <<>>)

IsValid_twoOfThree(missing) == Len(missing) <= 1

\* is_valid = len(missing_terms) == 0
IsValid(missing) == Len(missing) = 0

\* return is_valid, missing_terms, agreed_terms
Returned(t) ==
    [is_valid |-> IsValid(MissingTerms(t)), missing |-> MissingTerms(t), terms |-> t]

\* return False, ["price", "delivery", "volume"], agreed_terms
NoAgreement ==
    [is_valid |-> FALSE, missing |-> <<"price", "delivery", "volume">>, terms |-> NoTerms]

\* for i in range(len(conversation_history) - 1, 0, -1): the entries examined,
\* 1-based; the first entry is never examined
ScanIndices(h) == 2..Len(h)

AcceptIndex_earliest(h) ==
    LET hits == {k \in ScanIndices(h) : h[k].role = "user" /\ HasKeyword(h[k].content)}
    IN  IF hits = {} THEN 0 ELSE MinOf(hits)

\* the entry the loop returns on: the last examined buyer entry with a keyword
\* (0 when the loop runs to its end)
AcceptIndex(h) ==
    LET hits == {k \in ScanIndices(h) : h[k].role = "user" /\ HasKeyword(h[k].content)}
    IN  IF hits = {} THEN 0 ELSE MaxOf(hits)

SellerTerms_allThree(prev) ==
    IF prev.role = "assistant" /\ Count(Extract(prev.content)) >= 3
    THEN Extract(prev.content)
    ELSE NoTerms

\* the previous entry's terms when it is the seller's and carries two or more
SellerTerms(prev) ==
    IF prev.role = "assistant" /\ Count(Extract(prev.content)) >= 2
    THEN Extract(prev.content)
    ELSE NoTerms

\* agreed_terms after the buyer / previous-seller steps for the entry at k
DirectTerms(h, k) ==
    IF Count(Extract(h[k].content)) >= 2
    THEN Extract(h[k].content)
    ELSE SellerTerms(h[k - 1])

validate_agreement(h) ==
    LET k == AcceptIndex(h)
    IN  IF k = 0 THEN NoAgreement ELSE Returned(DirectTerms(h, k))

(***************************************************************************)
(* validate_agreement and _find_nearest_proposal_before, app.py            *)
(***************************************************************************)
NoCache == [present |-> FALSE, price |-> None, delivery |-> None, volume |-> None]

\* msg['_cached_extracts'] = {...}
CacheOf(text) ==
    [present |-> TRUE, price |-> extract_price(text),
     delivery |-> extract_delivery(text), volume |-> extract_volume(text)]

\* the seller entry _find_nearest_proposal_before(history, idx) returns, 1-based
\* (0 for None); idx is the 1-based index of the accepting entry
ProposalIndex(h, idx) ==
    LET hits == {j \in 1..(idx - 1) :
                    h[j].role = "assistant" /\ Count(Extract(h[j].content)) >= 2}
    IN  IF hits = {} THEN 0 ELSE MaxOf(hits)

\* the history as the search leaves it: every seller entry it visited carries
\* the cache key
_find_nearest_proposal_before(h, idx) ==
    LET found == ProposalIndex(h, idx)
    IN  [index |-> found,
         history |-> [j \in 1..Len(h) |->
                        IF j < idx /\ j >= found /\ h[j].role = "assistant"
                        THEN [h[j] EXCEPT !.cached_extracts = CacheOf(h[j].content)]
                        ELSE h[j]]]

app_validate_agreement(h) ==
    LET k == AcceptIndex(h)
    IN  IF k = 0 THEN [result |-> NoAgreement, history |-> h]
        ELSE LET direct == DirectTerms(h, k)
             IN  IF Count(Extract(h[k].content)) < 2 /\ direct = NoTerms
                 THEN LET proposal == _find_nearest_proposal_before(h, k)
                      IN  [result |-> Returned(IF proposal.index = 0 THEN NoTerms
                                               ELSE Extract(h[proposal.index].content)),
                           history |-> proposal.history]
                 ELSE [result |-> Returned(direct), history |-> h]

(***************************************************************************)
(* NegotiationEvaluator.evaluate: its reads of the transcript              *)
(***************************************************************************)
\* len([m for m in self.history if m["role"] == "user"])
Rounds(h) == Cardinality({i \in 1..Len(h) : h[i].role = "user"})

(***************************************************************************)
(* SpecAgree: the detector and the evaluator applied to every transcript   *)
(***************************************************************************)
BuyerContents ==
    { <<WORD>>,
      <<AGREE, DOLLAR, 45>>,
      <<AGREE, DOLLAR, 46, 40, DAYS>>,
      <<AGREE, DOLLAR, 44, 35, DAYS, 20, KILO>>,
      <<DOLLAR, 47, 41, DAYS>> }

SellerContents ==
    { <<WORD>>,
      <<DOLLAR, 50, 30, DAYS>>,
      <<DOLLAR, 52, 32, DAYS, 10000, UNITS>>,
      <<AGREE, DOLLAR, 51, 31, DAYS, 15000, UNITS>> }

Messages ==
    {[role |-> "user", content |-> c, cached_extracts |-> NoCache] : c \in BuyerContents}
        \cup
    {[role |-> "assistant", content |-> c, cached_extracts |-> NoCache] : c \in SellerContents}

InitAgree ==
    /\ SvcIdle
    /\ draws = <<>>
    /\ params = NoParams
    /\ lastOp = "init"
    /\ rng = 0
    /\ rngOrigin = NoSeed
    /\ hashSalt = 0
    /\ service = "none"
    /\ genLog = <<>>
    /\ history \in UNION {[1..n -> Messages] : n \in 0..MaxHist}
    /\ result = NoResult
    /\ evaluation = NoEvaluation

ValidateBackend ==
    /\ result' = validate_agreement(history)
    /\ lastOp' = "validate_agreement"
    /\ UNCHANGED <<draws, params, rng, rngOrigin, hashSalt, service, genLog,
                   history, evaluation>>
    /\ UNCHANGED svcVars

ValidateApp ==
    /\ result' = app_validate_agreement(history).result
    /\ history' = app_validate_agreement(history).history
    /\ lastOp' = "app_validate_agreement"
    /\ UNCHANGED <<draws, params, rng, rngOrigin, hashSalt, service, genLog,
                   evaluation>>
    /\ UNCHANGED svcVars

Evaluate ==
    /\ evaluation' = [negotiation_rounds |-> Rounds(history)]
    /\ lastOp' = "evaluate"
    /\ UNCHANGED <<draws, params, rng, rngOrigin, hashSalt, service, genLog,
                   history, result>>
    /\ UNCHANGED svcVars

NextAgree == ValidateBackend \/ ValidateApp \/ Evaluate

SpecAgree == InitAgree /\ [][NextAgree]_vars

Validated == lastOp \in {"validate_agreement", "app_validate_agreement"}

\* the most recent buyer entry holding an agreement keyword, 1-based (0: none)
LastAcceptance(h) ==
    LET hits == {k \in 1..Len(h) : h[k].role = "user" /\ HasKeyword(h[k].content)}
    IN  IF hits = {} THEN 0 ELSE MaxOf(hits)

Absent(t) ==
    {f \in {"price", "delivery", "volume"} :
        \/ f = "price" /\ t.price = None
        \/ f = "delivery" /\ t.delivery = None
        \/ f = "volume" /\ t.volume = None}

\* the returned missing list names exactly the fields of t that are absent
MissingIs(t) ==
    /\ {result.missing[i] : i \in DOMAIN result.missing} = Absent(t)
    /\ Len(result.missing) = Cardinality(Absent(t))

\* C5: validate_agreement returns is_complete = true exactly when price,
\* delivery and volume are all present in the returned terms, and the missing
\* list holds exactly the names of the absent fields.
C5_CompleteIffAllPresent ==
    Validated =>
        /\ result.is_valid = (Absent(result.terms) = {})
        /\ MissingIs(result.terms)

\* a result with two terms present and one missing
C5_Witness ==
    /\ Validated
    /\ Cardinality(Absent(result.terms)) = 1
    /\ ~result.is_valid

\* C6: if the most recent buyer message with an agreement keyword itself
\* yields at least two terms, the returned terms are the three values
\* extracted from that message, wherever it stands in the transcript.
C6_BuyerTermsWin ==
    LET k == LastAcceptance(history)
    IN  (Validated /\ k # 0 /\ Count(Extract(history[k].content)) >= 2)
            => result.terms = Extract(history[k].content)

\* C7: when the accepting buyer message yields fewer than two terms and the
\* entry before it is a seller message with at least two, the seller message's
\* values are returned; a field it lacks is absent and listed as missing, so
\* two found fields give an incomplete result.
C7_PreviousSellerTerms ==
    LET k == LastAcceptance(history)
    IN  (/\ Validated
         /\ k >= 2
         /\ Count(Extract(history[k].content)) < 2
         /\ history[k - 1].role = "assistant"
         /\ Count(Extract(history[k - 1].content)) >= 2)
            => /\ result.terms = Extract(history[k - 1].content)
               /\ MissingIs(Extract(history[k - 1].content))
               /\ (Count(Extract(history[k - 1].content)) = 2 => ~result.is_valid)

\* an acceptance without terms right after a seller message with two terms
C7_Witness ==
    LET k == LastAcceptance(history)
    IN  /\ Validated
        /\ k >= 2
        /\ Count(Extract(history[k].content)) < 2
        /\ history[k - 1].role = "assistant"
        /\ Count(Extract(history[k - 1].content)) = 2
        /\ result.missing = <<"volume">>

\* C8: when neither the accepting buyer message nor the entry before it yields
\* two terms, the nearest earlier seller message with at least two terms
\* supplies the agreed terms.
C8_NearestEarlierProposal ==
    LET k == LastAcceptance(history)
    IN  (/\ Validated
         /\ k >= 2
         /\ Count(Extract(history[k].content)) < 2
         /\ Count(Extract(history[k - 1].content)) < 2
         /\ ProposalIndex(history, k) # 0)
            => result.terms = Extract(history[ProposalIndex(history, k)].content)

\* C9: the decision rests on the most recent buyer acceptance alone: when
\* neither that message nor any seller message before it yields two terms, the
\* result is incomplete with no terms, whatever an earlier acceptance holds.
C9_OnlyLastAcceptance ==
    LET k == LastAcceptance(history)
    IN  (/\ Validated
         /\ k # 0
         /\ Count(Extract(history[k].content)) < 2
         /\ ProposalIndex(history, k) = 0)
            => /\ ~result.is_valid
               /\ result.terms = NoTerms
               /\ result.missing = <<"price", "delivery", "volume">>

\* a last acceptance without candidates, after an earlier buyer acceptance that
\* carries all three terms itself
C9_Witness ==
    LET k == LastAcceptance(history)
    IN  /\ Validated
        /\ k >= 3
        /\ Count(Extract(history[k].content)) < 2
        /\ ProposalIndex(history, k) = 0
        /\ \E j \in 2..(k - 1) :
              /\ history[j].role = "user"
              /\ HasKeyword(history[j].content)
              /\ Count(Extract(history[j].content)) = 3
        /\ ~result.is_valid

\* C10: validate_agreement and evaluate leave every entry of the transcript
\* with the keys and values it had before the call.
C10_TranscriptUnchanged ==
    [][lastOp' \in {"validate_agreement", "app_validate_agreement", "evaluate"}
          => history' = history]_vars

(***************************************************************************)
(* NegotiationEvaluator, backend/app/services/evaluator.py.  Scores are in *)
(* tenths of a point (round(x, 1)), prices in cents, delivery in days.     *)
(* The keyword tests read the tokens of a content: TRADE is a word of      *)
(* trade_off_keywords only ('discount'), RUDE one of red_flags             *)
(* ('ridiculous'), PLEASE one of positive_indicators worth 5, STRATEGY one *)
(* of strategy_keywords only ('alternative'); AGREE reads 'agree' and      *)
(* ORDER reads 'order'.                                                    *)
(***************************************************************************)
MaxEvalHist == 4

TRADE == -8

RUDE == -9

PLEASE == -10

STRATEGY == -11

Tenths == 10

Min2(a, b) == IF a <= b THEN a ELSE b

RECURSIVE SumOver(_, _)

\* sum(f[x] for x in S)
SumOver(f, S) ==
    IF S = {} THEN 0
    ELSE LET x == CHOOSE y \in S : TRUE
         IN  f[x] + SumOver(f, S \ {x})

\* any(keyword in message_lower for keyword in words)
Has(text, words) == \E i \in 1..Len(text) : text[i] \in words

\* indices of the buyer entries: [m for m in self.history if m["role"] == "user"]
UserIdx(h) == {i \in 1..Len(h) : h[i].role = "user"}

\* the three values agreed_terms can take: None, {} and a dictionary
AgreedNone == [kind |-> "None", price |-> None, delivery |-> None, volume |-> None]

AgreedEmpty == [kind |-> "empty", price |-> None, delivery |-> None, volume |-> None]

AgreedDict(t) ==
    [kind |-> "dict", price |-> t.price, delivery |-> t.delivery, volume |-> t.volume]

\* not self.agreed_terms
Falsy(at) == at.kind \in {"None", "empty"}

ReductionPctAtLeast_reversed(opening, final, pct) ==
    (final - opening) * 100 >= pct * opening

\* ((opening - final) / opening) * 100 >= pct
ReductionPctAtLeast(opening, final, pct) == (opening - final) * 100 >= pct * opening

Component_flat(opening, target, final) ==
    IF final <= target THEN 95 ELSE 30

\* the ladder of price_component and of delivery_component
Component(opening, target, final) ==
    IF final <= target THEN 95
    ELSE IF ReductionPctAtLeast(opening, final, 15) THEN 80
    ELSE IF ReductionPctAtLeast(opening, final, 10) THEN 70
    ELSE IF ReductionPctAtLeast(opening, final, 5) THEN 50
    ELSE 30

_score_deal_quality(dp, at) ==
    IF Falsy(at) THEN 0
    ELSE 6 * Component(dp.price.opening, dp.price.target, at.price)
            + 4 * Component(dp.delivery.opening, dp.delivery.target, at.delivery)

trade_off_keywords == {TRADE}

trade_off_count(h) ==
    Cardinality({i \in UserIdx(h) : Has(h[i].content, trade_off_keywords)})

TradeOffBand_ceil(count, total_rounds) ==
    IF count = 0 THEN 30
    ELSE IF count = 1 THEN 50
    ELSE IF count >= 2 /\ count <= (total_rounds + 1) \div 2 THEN 75
    ELSE 90

\* the ladder of _score_trade_off_strategy: count <= total_rounds * 0.5
TradeOffBand(count, total_rounds) ==
    IF count = 0 THEN 30
    ELSE IF count = 1 THEN 50
    ELSE IF count >= 2 /\ 2 * count <= total_rounds THEN 75
    ELSE 90

_score_trade_off_strategy(h) == Tenths * TradeOffBand(trade_off_count(h), Rounds(h))

red_flags == {RUDE}

positive_indicators == [w \in {PLEASE} |-> 5]

\* one subtraction of 10 per red flag word a message holds
RedFlagHits(h) ==
    SumOver([i \in UserIdx(h) |->
                Cardinality({w \in red_flags : Has(h[i].content, {w})})],
            UserIdx(h))

\* one bonus per indicator a message holds
Bonuses(h) ==
    SumOver([i \in UserIdx(h) |->
                SumOver(positive_indicators,
                        {w \in DOMAIN positive_indicators : Has(h[i].content, {w})})],
            UserIdx(h))

_score_professionalism(h) ==
    LET reduced == 85 - 10 * RedFlagHits(h)
        raised  == IF Bonuses(h) = 0 THEN reduced
                   ELSE Min2(100, reduced + Bonuses(h))
    IN  Tenths * Max2(0, raised)

_score_process_management(h) ==
    LET n     == Rounds(h)
        \* sum(len(msg.split()) ...): '$' is written against the number after it
        words == SumOver([i \in UserIdx(h) |->
                             Cardinality({k \in 1..Len(h[i].content) :
                                             h[i].content[k] # DOLLAR})],
                         UserIdx(h))
        base  == 70 + (IF \E i \in UserIdx(h) : Has(h[i].content, {AGREE})
                       THEN 15 ELSE 0)
        sized == IF 10 * n <= words /\ words <= 40 * n THEN base + 10
                 ELSE IF words > 100 * n THEN base - 10
                 ELSE IF words < 5 * n THEN base - 5
                 ELSE base
        \* "$" in msg or "day" in msg.lower()
        offer_count == Cardinality({i \in UserIdx(h) :
                                       Has(h[i].content, {DOLLAR, DAYS})})
        full  == IF 10 * offer_count >= 7 * n THEN sized + 10 ELSE sized
    IN  Tenths * Min2(100, Max2(0, full))

\* re.findall(r'\$?(\d+(?:\.\d{2})?)', msg)
Numbers(text) == {i \in 1..Len(text) : text[i] >= 0}

\* tuple(sorted(numbers)): the numbers of a message with their multiplicities
SortedOffer(text) ==
    [v \in {text[i] : i \in Numbers(text)} |->
        Cardinality({i \in Numbers(text) : text[i] = v})]

strategy_keywords == {STRATEGY}

_score_creativity_adaptability(h) ==
    LET offers == {i \in UserIdx(h) : Numbers(h[i].content) # {}}
        unique_offers == Cardinality({SortedOffer(h[i].content) : i \in offers})
        len == Cardinality(offers)
        adaptation_score ==
            IF 10 * unique_offers >= 8 * len THEN 90
            ELSE IF 10 * unique_offers >= 6 * len THEN 75
            ELSE IF 10 * unique_offers >= 4 * len THEN 55
            ELSE 35
        strategy_attempts ==
            Cardinality({i \in UserIdx(h) : Has(h[i].content, strategy_keywords)})
    IN  IF Rounds(h) < 2 THEN Tenths * 50
        ELSE IF len = 0 THEN Tenths * 30
        ELSE IF strategy_attempts >= 2 THEN Tenths * Min2(100, adaptation_score + 15)
        ELSE Tenths * adaptation_score

\* METRIC_WEIGHTS, in hundredths
METRIC_WEIGHTS ==
    [deal_quality |-> 33, trade_off_strategy |-> 28, professionalism |-> 17,
     process_management |-> 11, creativity_adaptability |-> 11]

_calculate_overall_score(deal_quality, strategy, professionalism, process, creativity) ==
    RoundDiv(deal_quality * METRIC_WEIGHTS.deal_quality
                + strategy * METRIC_WEIGHTS.trade_off_strategy
                + professionalism * METRIC_WEIGHTS.professionalism
                + process * METRIC_WEIGHTS.process_management
                + creativity * METRIC_WEIGHTS.creativity_adaptability,
             100)

\* what evaluate does when one of its steps raises
Raises(exception) ==
    [raised |-> exception, overall_score |-> None, deal_quality |-> None,
     trade_off_strategy |-> None, professionalism |-> None,
     process_management |-> None, creativity_adaptability |-> None,
     negotiation_rounds |-> None]

\* NegotiationEvaluator(history, deal_params, agreed_terms).evaluate()
evaluate(h, dp, at) ==
    \* opening_price - None or opening_delivery - None in _score_deal_quality
    IF ~Falsy(at) /\ (at.price = None \/ at.delivery = None) THEN Raises("TypeError")
    \* sum(...) / len(user_messages) with no user message
    ELSE IF Rounds(h) = 0 THEN Raises("ZeroDivisionError")
    ELSE LET deal_quality_score    == _score_deal_quality(dp, at)
             strategy_score        == _score_trade_off_strategy(h)
             professionalism_score == _score_professionalism(h)
             process_score         == _score_process_management(h)
             creativity_score      == _score_creativity_adaptability(h)
         IN  [raised |-> "none",
              overall_score |-> _calculate_overall_score(deal_quality_score,
                                    strategy_score, professionalism_score,
                                    process_score, creativity_score),
              deal_quality |-> deal_quality_score,
              trade_off_strategy |-> strategy_score,
              professionalism |-> professionalism_score,
              process_management |-> process_score,
              creativity_adaptability |-> creativity_score,
              negotiation_rounds |-> Rounds(h)]

(***************************************************************************)
(* SpecEval: evaluate applied to every transcript, parameter set and       *)
(* agreed terms of the sets below                                          *)
(***************************************************************************)
\* sample_params of the module's __main__ block
sample_params ==
    [impl |-> "sample",
     price |-> [opening |-> 5250, target |-> 4200, reservation |-> 3850],
     delivery |-> [opening |-> 60, target |-> 45, reservation |-> 35]]

\* sample_agreed of the module's __main__ block
sample_agreed == AgreedDict([price |-> 4400, delivery |-> 42, volume |-> 20000])

\* a second parameter set whose percentage steps fall on whole amounts
round_params ==
    [impl |-> "round",
     price |-> [opening |-> 10000, target |-> 8000, reservation |-> 7000],
     delivery |-> [opening |-> 40, target |-> 30, reservation |-> 25]]

EvalPrices == {4200, 4400, 4725, 4900, 5000, 8500, 9000, 9600}

EvalAgreedTerms ==
    {AgreedNone, AgreedEmpty, AgreedDict(NoTerms)}
        \cup
    {AgreedDict([price |-> p, delivery |-> d, volume |-> 20000]) :
        p \in EvalPrices \cup {None}, d \in {42, 51, 57} \cup {None}}

EvalBuyerContents ==
    { <<WORD>>,
      <<TRADE, WORD, WORD, DOLLAR, 45>>,
      <<AGREE, PLEASE, STRATEGY, 30, DAYS>>,
      <<RUDE, DOLLAR, 45>> }

EvalMessages ==
    {[role |-> "user", content |-> c] : c \in EvalBuyerContents}
        \cup
    {[role |-> "assistant", content |-> c] : c \in { <<DOLLAR, 50, 30, DAYS>> }}

InitEval ==
    /\ draws = <<>>
    /\ params \in {sample_params, round_params}
    /\ lastOp = "init"
    /\ rng = 0
    /\ rngOrigin = NoSeed
    /\ hashSalt = 0
    /\ service = "none"
    /\ genLog = <<>>
    /\ history \in UNION {[1..n -> EvalMessages] : n \in 0..MaxEvalHist}
    /\ result = NoResult
    /\ evaluation = NoEvaluation
    /\ agreed_terms \in EvalAgreedTerms
    /\ sessions_db = <<>>
    /\ uuids = 0
    /\ response = Unset
    /\ request = Unset
    /\ session_state = Unset

\* evaluate_negotiation(conversation_history, deal_params, agreed_terms)
evaluate_negotiation ==
    /\ evaluation' = evaluate(history, params, agreed_terms)
    /\ lastOp' = "evaluate_negotiation"
    /\ UNCHANGED <<draws, params, rng, rngOrigin, hashSalt, service, genLog,
                   history, result, agreed_terms, sessions_db, uuids, response,
                   request, session_state>>

NextEval == evaluate_negotiation

SpecEval == InitEval /\ [][NextEval]_vars

Evaluated == lastOp = "evaluate_negotiation"

\* the component the claim gives for an agreed value: 95 at or below target,
\* otherwise by the reduction from opening
ClaimedComponent(opening, target, final) ==
    CASE final <= target -> 95
      [] final > target /\ 100 * (opening - final) >= 15 * opening -> 80
      [] final > target /\ 100 * (opening - final) < 15 * opening
            /\ 100 * (opening - final) >= 10 * opening -> 70
      [] final > target /\ 100 * (opening - final) < 10 * opening
            /\ 100 * (opening - final) >= 5 * opening -> 50
      [] final > target /\ 100 * (opening - final) < 5 * opening -> 30

TermsGiven == ~Falsy(agreed_terms) /\ agreed_terms.price # None /\ agreed_terms.delivery # None

\* C11: with a buyer message in the transcript and both agreed values given,
\* Deal Quality is 0.6 times the price component plus 0.4 times the delivery
\* component, each component 95 at or below target and otherwise 80, 70, 50 or
\* 30 for a reduction from opening of at least 15%, 10%, 5% or less; the sample
\* of the module (52.50/42.00, 60/45, agreed 44 and 42 days) scores 86.
C11_DealQualityFormula ==
    (Evaluated /\ TermsGiven /\ Rounds(history) > 0) =>
        /\ evaluation.raised = "none"
        /\ evaluation.deal_quality =
              6 * ClaimedComponent(params.price.opening, params.price.target,
                                   agreed_terms.price)
                 + 4 * ClaimedComponent(params.delivery.opening, params.delivery.target,
                                        agreed_terms.delivery)
        /\ (params = sample_params /\ agreed_terms = sample_agreed)
              => evaluation.deal_quality = 86 * Tenths

\* the sample of the module evaluated: 0.6 * 80 + 0.4 * 95
C11_Witness ==
    /\ Evaluated
    /\ params = sample_params
    /\ agreed_terms = sample_agreed
    /\ Rounds(history) > 0
    /\ evaluation.deal_quality = 860

\* C12: with parameters, delivery and volume fixed, a lower agreed price at or
\* above reservation never scores a lower Deal Quality than a higher one.
C12_MonotoneInPrice ==
    (Evaluated /\ TermsGiven /\ Rounds(history) > 0) =>
        \A p2 \in EvalPrices :
            (/\ params.price.reservation <= agreed_terms.price
             /\ agreed_terms.price <= p2)
                => evaluation.deal_quality >=
                      evaluate(history, params,
                               [agreed_terms EXCEPT !.price = p2]).deal_quality

\* an evaluated price above target that a higher price strictly undercuts
C12_Witness ==
    /\ Evaluated
    /\ TermsGiven
    /\ Rounds(history) > 0
    /\ agreed_terms.price > params.price.target
    /\ \E p2 \in EvalPrices :
          /\ agreed_terms.price < p2
          /\ evaluation.deal_quality >
                evaluate(history, params, [agreed_terms EXCEPT !.price = p2]).deal_quality

InRange(score) == 0 <= score /\ score <= 100 * Tenths

ScoresInRange ==
    /\ InRange(evaluation.deal_quality)
    /\ InRange(evaluation.trade_off_strategy)
    /\ InRange(evaluation.professionalism)
    /\ InRange(evaluation.process_management)
    /\ InRange(evaluation.creativity_adaptability)
    /\ InRange(evaluation.overall_score)

\* C13: for every transcript, also one without buyer messages, and every
\* parameter set, evaluate returns a result whose five sub-scores and overall
\* score lie in [0, 100] (here for agreed terms that carry price and delivery).
C13_ScoresInRange ==
    (Evaluated /\ TermsGiven) => (evaluation.raised = "none" /\ ScoresInRange)

\* the band the claim gives for c trade-off messages in a number of rounds
ClaimedBand(c, rounds) ==
    CASE c = 0 -> 30
      [] c = 1 -> 50
      [] c >= 2 /\ 2 * c <= rounds + 1 -> 75
      [] c >= 2 /\ 2 * c > rounds + 1 -> 90

C15_EmptyTermsScoreZero ==
    (/\ Evaluated
     /\ Rounds(history) > 0
     /\ agreed_terms \in {AgreedNone, AgreedEmpty, AgreedDict(NoTerms)})
        => (evaluation.raised = "none" /\ evaluation.deal_quality = 0)

(***************************************************************************)
(* The REST service of backend/app/main.py.  result, evaluation,           *)
(* agreed_terms and response hold what the last request computed.          *)
(***************************************************************************)
MaxSessions == 2

MaxChats == 2

\* the three fixed strings of get_ai_response, each one token
FALLBACK_NO_KEY == -12

FALLBACK_EMPTY == -13

FALLBACK_ERROR == -14

\* what the generative service does with a prompt
AiOutcomes ==
    {[kind |-> k, text |-> <<>>] : k \in {"no_key", "empty", "raises"}}
        \cup
    {[kind |-> "text", text |-> t] :
        t \in { <<DOLLAR, 52, 32, DAYS, 10000, UNITS>>,
                <<DOLLAR, 0, 0, DAYS, 10000, UNITS>> }}

\* ai_service.py: the reply, or the fixed string of the branch taken
get_ai_response(outcome) ==
    CASE outcome.kind = "no_key" -> <<FALLBACK_NO_KEY>>
      [] outcome.kind = "empty"  -> <<FALLBACK_EMPTY>>
      [] outcome.kind = "raises" -> <<FALLBACK_ERROR>>
      [] outcome.kind = "text"   -> outcome.text

NotFound_ok == [status |-> 200]

\* raise HTTPException(status_code=404, detail="Session not found")
NotFound == [status |-> 404]

\* the request leaves the store alone and returns resp
Respond(resp, op) ==
    /\ response' = resp
    /\ lastOp' = op
    /\ result' = NoResult
    /\ evaluation' = NoEvaluation
    /\ agreed_terms' = Unset
    /\ UNCHANGED <<draws, params, rng, rngOrigin, hashSalt, service, genLog,
                   history, sessions_db, uuids, session_state>>

Exchange_userOnly(h, user_input, ai_response) ==
    Append(h, [role |-> "user", content |-> user_input])

\* the two history.append calls of send_message
Exchange(h, user_input, ai_response) ==
    Append(Append(h, [role |-> "user", content |-> user_input]),
           [role |-> "assistant", content |-> ai_response])

\* main.py POST /api/chat
send_message(session_id, user_input, outcome) ==
    /\ request' = Request("send_message", session_id)
    /\ IF session_id \notin DOMAIN sessions_db
       THEN Respond(NotFound, "send_message")
       ELSE LET session     == sessions_db[session_id]
                next_state  == IF Has(user_input, {AGREE}) THEN "CLOSING"
                               ELSE "NEGOTIATING"
                ai_response == get_ai_response(outcome)
                with_reply  == Exchange(session.history, user_input, ai_response)
                validated   == validate_agreement(with_reply)
                state       == IF validated.is_valid THEN "CLOSING" ELSE next_state
            IN  /\ sessions_db' = [sessions_db EXCEPT ![session_id].history = with_reply,
                                                      ![session_id].state = state]
                /\ result' = validated
                /\ response' = [status |-> 200, session_id |-> session_id,
                                ai_response |-> ai_response,
                                agreement_detected |-> validated.is_valid,
                                state |-> state]
                /\ lastOp' = "send_message"
                /\ evaluation' = NoEvaluation
                /\ agreed_terms' = Unset
                /\ UNCHANGED <<draws, params, rng, rngOrigin, hashSalt, service, genLog,
                               history, uuids, session_state>>

\* bool(x) of an extracted value or a dictionary entry
Truthy(x) == x # None /\ x # 0

\* x or default
Or(x, default) == IF Truthy(x) THEN x ELSE default

\* extract_price gives dollars, the parameters are kept in cents
PriceOf(text) ==
    IF extract_price(text) = None THEN None ELSE Cents * extract_price(text)

RECURSIVE ResolveFrom(_, _, _, _)

\* the loop over reversed(history): i is the entry examined, at the terms so far
ResolveFrom(h, i, dp, at) ==
    IF i = 0 THEN at
    ELSE IF h[i].role = "assistant"
         THEN LET next == [price |-> Or(PriceOf(h[i].content), dp.price.target),
                           delivery |-> Or(extract_delivery(h[i].content),
                                           dp.delivery.target)]
              IN  IF Truthy(next.price) /\ Truthy(next.delivery) THEN next
                  ELSE ResolveFrom(h, i - 1, dp, next)
         ELSE ResolveFrom(h, i - 1, dp, at)

\* evaluate_deal: the agreed terms it hands to the evaluator
ResolveTerms(h, dp) ==
    LET found == ResolveFrom(h, Len(h), dp, [price |-> None, delivery |-> None])
    IN  [kind |-> "dict",
         price |-> IF found.price = None THEN dp.price.target ELSE found.price,
         delivery |-> IF found.delivery = None THEN dp.delivery.target
                      ELSE found.delivery,
         volume |-> IF "volume" \in DOMAIN dp THEN dp.volume ELSE 10000]

\* main.py GET /api/deals/{session_id}/evaluate
evaluate_deal(session_id) ==
    /\ request' = Request("evaluate_deal", session_id)
    /\ IF session_id \notin DOMAIN sessions_db
       THEN Respond(NotFound, "evaluate_deal")
       ELSE LET session == sessions_db[session_id]
                terms   == ResolveTerms(session.history, session.deal_params)
                scored  == evaluate(session.history, session.deal_params, terms)
            IN  /\ agreed_terms' = terms
                /\ evaluation' = scored
                \* NegotiationAnalysis.volume is Optional[int]: the volume dictionary
                \* of the generated parameters fails its validation
                /\ response' = [status |-> IF scored.raised # "none" THEN 500
                                           ELSE IF "volume" \in DOMAIN session.deal_params
                                                THEN 500
                                           ELSE 200,
                                session_id |-> session_id]
                /\ lastOp' = "evaluate_deal"
                /\ result' = NoResult
                /\ UNCHANGED <<draws, params, rng, rngOrigin, hashSalt, service, genLog,
                               history, sessions_db, uuids, session_state>>

\* main.py GET /api/deals
list_completed_deals ==
    LET completed == {sid \in DOMAIN sessions_db : sessions_db[sid].state = "CLOSING"}
    IN  /\ service = "main"
        /\ request' = Request("list_completed_deals", None)
        /\ Respond([status |-> 200, count |-> Cardinality(completed),
                     completed_deals |-> completed], "list_completed_deals")

(***************************************************************************)
(* SpecMain: clients creating sessions, chatting and asking for the        *)
(* evaluation, in any order                                                *)
(***************************************************************************)
\* the ids a request may name: every id issued so far or later, and one more
RequestIds == 1..(MaxSessions + 1)

\* buyer messages received so far, over all sessions
ChatsSoFar ==
    SumOver([k \in DOMAIN sessions_db |-> Rounds(sessions_db[k].history)],
            DOMAIN sessions_db)

InitMain ==
    /\ SvcIdle
    /\ draws = <<>>
    /\ params = NoParams
    /\ lastOp = "init"
    /\ rng = 0
    /\ rngOrigin = NoSeed
    /\ hashSalt = 0
    /\ service = "main"
    /\ genLog = <<>>
    /\ history = <<>>
    /\ result = NoResult
    /\ evaluation = NoEvaluation

NextMain ==
    \/ /\ uuids < MaxSessions
       /\ \E student_id \in {<<65>>} : create_new_session(student_id)
    \/ /\ ChatsSoFar < MaxChats
       /\ \E session_id \in RequestIds, user_input \in { <<WORD>>, <<AGREE>> },
             outcome \in AiOutcomes :
                send_message(session_id, user_input, outcome)
    \/ \E session_id \in RequestIds : evaluate_deal(session_id)
    \/ list_completed_deals

SpecMain == InitMain /\ [][NextMain]_vars

\* the evaluate endpoint has run the evaluator for the session it names
EvaluatorRan == lastOp = "evaluate_deal" /\ response.status # 404

ChatAnswered == lastOp = "send_message" /\ response.status = 200

\* index of the most recent seller entry of a transcript (0: none)
LastSellerEntry(h) ==
    LET hits == {i \in 1..Len(h) : h[i].role = "assistant"}
    IN  IF hits = {} THEN 0 ELSE MaxOf(hits)

\* C16: where the code decides whether an agreed term is present, an extracted
\* 0 counts as present: the detector does not list it as missing, and the
\* evaluate endpoint keeps a price or delivery of 0 found in the most recent
\* seller entry instead of a default.
C16_ZeroIsPresent ==
    /\ ChatAnswered =>
          /\ result.terms.price = 0 => \A i \in DOMAIN result.missing :
                                            result.missing[i] # "price"
          /\ result.terms.delivery = 0 => \A i \in DOMAIN result.missing :
                                            result.missing[i] # "delivery"
          /\ result.terms.volume = 0 => \A i \in DOMAIN result.missing :
                                            result.missing[i] # "volume"
    /\ EvaluatorRan =>
          LET h == sessions_db[response.session_id].history
              i == LastSellerEntry(h)
          IN  /\ extract_price(h[i].content) = 0 => agreed_terms.price = 0
              /\ extract_delivery(h[i].content) = 0 => agreed_terms.delivery = 0

\* a complete agreement was detected after some exchange of the transcript
AgreementReached(h) ==
    \E n \in 1..Len(h) : validate_agreement(SubSeq(h, 1, n)).is_valid

\* C18: the evaluator runs for a session only after a complete agreement with
\* all three terms has been reached in that session (here: the REST service).
C18_EvaluatorAfterAgreement ==
    EvaluatorRan => AgreementReached(sessions_db[response.session_id].history)

\* roles alternate from a seller entry on
Alternates(h) ==
    \A i \in 1..Len(h) : h[i].role = (IF i % 2 = 1 THEN "assistant" ELSE "user")

\* what an answered chat request did to the history of its session
ChatStep ==
    ChatAnswered' =>
        LET old == sessions_db[response'.session_id].history
            new == sessions_db'[response'.session_id].history
        IN  /\ Len(new) = Len(old) + 2
            /\ SubSeq(new, 1, Len(old)) = old
            /\ new[Len(old) + 1].role = "user"
            /\ new[Len(old) + 2] = [role |-> "assistant",
                                    content |-> response'.ai_response]

\* C19: every answered /api/chat call extends the history of its session by
\* the buyer message and one seller entry, leaving the earlier entries as they
\* were; every history starts with the seller greeting and alternates roles.
C19_ChatAppendsTwo ==
    /\ [](\A k \in DOMAIN sessions_db :
            /\ sessions_db[k].history[1] = [role |-> "assistant", content |-> Greeting]
            /\ Alternates(sessions_db[k].history))
    /\ [][ChatStep]_vars

\* a second exchange answered with a fallback string
C19_Witness ==
    /\ ChatAnswered
    /\ Len(sessions_db[response.session_id].history) = 5
    /\ response.ai_response \in {<<FALLBACK_NO_KEY>>, <<FALLBACK_EMPTY>>, <<FALLBACK_ERROR>>}

(***************************************************************************)
(* The Streamlit page of app.py.  One action is one user event: the script *)
(* run it triggers and, where that run ends in st.rerun(), the run after.  *)
(***************************************************************************)
MaxTurns == 3

\* a session_state key holding None, or not set at all
NoDict == [present |-> FALSE, price |-> None, delivery |-> None, volume |-> None]

\* a dictionary with the keys price, delivery and volume
Dict(t) ==
    [present |-> TRUE, price |-> t.price, delivery |-> t.delivery, volume |-> t.volume]

\* st.session_state after the initialisation block of the script
FreshState(deal_params) ==
    [deal_params |-> deal_params,
     history |-> <<[role |-> "assistant", content |-> Greeting,
                    cached_extracts |-> NoCache]>>,
     state |-> "NEGOTIATING",
     deal_closed |-> FALSE,
     evaluation_shown |-> FALSE,
     pending_confirmation |-> NoDict,
     final_agreement |-> NoDict,
     last_assistant_proposal |-> NoDict]

\* app.py get_ai_response: the reply as clean_ai_response and
\* enforce_concise_response leave it, or the fixed string of the branch taken
app_get_ai_response(outcome) ==
    CASE outcome.kind = "no_key" -> <<FALLBACK_NO_KEY>>
      [] outcome.kind = "empty"  -> <<FALLBACK_EMPTY>>
      [] outcome.kind = "raises" -> <<FALLBACK_ERROR>>
      [] outcome.kind = "text"   -> outcome.text

determine_next_state(current_state, user_input) ==
    IF Has(user_input, {AGREE}) THEN "CLOSING" ELSE "NEGOTIATING"

\* the evaluation display block: what it leaves in session_state
EvaluationDisplay(ss) ==
    IF ss.deal_closed /\ ~ss.evaluation_shown
    THEN LET fromHistory == app_validate_agreement(ss.history)
             checked == IF ss.final_agreement.present
                        THEN Returned([price |-> ss.final_agreement.price,
                                       delivery |-> ss.final_agreement.delivery,
                                       volume |-> ss.final_agreement.volume])
                        ELSE fromHistory.result
             seen    == IF ss.final_agreement.present THEN ss
                        ELSE [ss EXCEPT !.history = fromHistory.history]
         IN  IF ~checked.is_valid
             THEN [seen EXCEPT !.deal_closed = FALSE]
             ELSE [seen EXCEPT !.evaluation_shown = TRUE]
    ELSE ss

\* the sidebar's New Chat button: session_state.clear(), st.rerun(), and the
\* initialisation block of the run that follows
NewChat(student_id) ==
    /\ Len(genLog) < MaxGens
    /\ LET seed   == StudentSeed(student_id)
           start  == SeededState(seed, rng)
           origin == IF seed # NoSeed THEN seed ELSE rngOrigin
           d      == DrawSeq(start, 6)
       IN  /\ rng' = Advance(start, 6)
           /\ rngOrigin' = origin
           /\ draws' = d
           /\ params' = app_generate_deal_parameters(d)
           /\ genLog' = Append(genLog, [student_id |-> student_id, seed |-> seed,
                                        origin |-> origin,
                                        params |-> app_generate_deal_parameters(d)])
           /\ session_state' = FreshState(app_generate_deal_parameters(d))
    /\ lastOp' = "new_chat"
    /\ result' = NoResult
    /\ evaluation' = NoEvaluation
    /\ UNCHANGED <<hashSalt, service, history, agreed_terms, sessions_db, uuids,
                   response, request>>

\* a proposal typed into st.chat_input
ChatInput(user_input, outcome) ==
    /\ ~session_state.deal_closed
    /\ LET ss          == session_state
           with_user   == Append(ss.history, [role |-> "user", content |-> user_input,
                                              cached_extracts |-> NoCache])
           ai_response == app_get_ai_response(outcome)
           with_reply  == Append(with_user, [role |-> "assistant",
                                             content |-> ai_response,
                                             cached_extracts |-> NoCache])
           last_prop   == IF Count(Extract(ai_response)) >= 2
                          THEN Dict(Extract(ai_response))
                          ELSE ss.last_assistant_proposal
           validated   == app_validate_agreement(with_reply)
           agreed      == IF Count(Extract(user_input)) < 2 /\ last_prop.present
                          THEN last_prop
                          ELSE Dict(validated.result.terms)
       IN  /\ session_state' =
                 [ss EXCEPT !.history = validated.history,
                            !.last_assistant_proposal = last_prop,
                            !.state = IF validated.result.is_valid
                                      THEN "AWAITING_CONFIRMATION"
                                      ELSE determine_next_state(ss.state, user_input),
                            !.pending_confirmation =
                                IF validated.result.is_valid THEN agreed ELSE NoDict]
           /\ result' = validated.result
    /\ lastOp' = "chat_input"
    /\ evaluation' = NoEvaluation
    /\ UNCHANGED <<draws, params, rng, rngOrigin, hashSalt, service, genLog, history,
                   agreed_terms, sessions_db, uuids, response, request>>

\* the Confirm Agreement button, st.rerun(), and the evaluation display of the
\* run that follows
ConfirmAgreement ==
    /\ session_state.pending_confirmation.present
    /\ ~session_state.deal_closed
    /\ LET confirmed == [session_state EXCEPT
                            !.final_agreement = session_state.pending_confirmation,
                            !.deal_closed = TRUE,
                            !.pending_confirmation = NoDict]
           displayed == EvaluationDisplay(confirmed)
       IN  /\ session_state' = displayed
           /\ evaluation' = IF displayed.evaluation_shown
                            THEN [final_agreement |-> displayed.final_agreement]
                            ELSE NoEvaluation
    /\ lastOp' = "confirm_agreement"
    /\ result' = NoResult
    /\ UNCHANGED <<draws, params, rng, rngOrigin, hashSalt, service, genLog, history,
                   agreed_terms, sessions_db, uuids, response, request>>

\* the Continue Negotiating button and st.rerun()
ContinueNegotiating ==
    /\ session_state.pending_confirmation.present
    /\ ~session_state.deal_closed
    /\ session_state' = [session_state EXCEPT !.pending_confirmation = NoDict,
                                              !.deal_closed = FALSE,
                                              !.state = "NEGOTIATING"]
    /\ lastOp' = "continue_negotiating"
    /\ result' = NoResult
    /\ evaluation' = NoEvaluation
    /\ UNCHANGED <<draws, params, rng, rngOrigin, hashSalt, service, genLog, history,
                   agreed_terms, sessions_db, uuids, response, request>>

\* the Start New Negotiation button: it is drawn by the run that displays the
\* evaluation; the run its click triggers skips that block (evaluation_shown
\* is set), never reaches the button and leaves session_state as it was
StartNewNegotiation ==
    /\ lastOp = "confirm_agreement"
    /\ session_state.evaluation_shown
    /\ lastOp' = "start_new_negotiation"
    /\ evaluation' = NoEvaluation
    /\ UNCHANGED <<draws, params, rng, rngOrigin, hashSalt, service, genLog, history,
                   result, agreed_terms, sessions_db, uuids, response, request,
                   session_state>>

(***************************************************************************)
(* SpecStream: one browser session from its first page load                *)
(***************************************************************************)
StreamOutcomes ==
    {[kind |-> k, text |-> <<>>] : k \in {"no_key", "empty", "raises"}}
        \cup
    {[kind |-> "text", text |-> t] :
        t \in { <<DOLLAR, 52, 32, DAYS, 10000, UNITS>>, <<DOLLAR, 50, 30, DAYS>> }}

InitStream ==
    /\ draws = DrawSeq(0, 6)
    /\ params = app_generate_deal_parameters(DrawSeq(0, 6))
    /\ lastOp = "init"
    /\ rng = Advance(0, 6)
    /\ rngOrigin = NoSeed
    /\ hashSalt = 0
    /\ service = "streamlit"
    /\ genLog = <<[student_id |-> <<>>, seed |-> NoSeed, origin |-> NoSeed,
                   params |-> app_generate_deal_parameters(DrawSeq(0, 6))]>>
    /\ history = <<>>
    /\ result = NoResult
    /\ evaluation = NoEvaluation
    /\ agreed_terms = Unset
    /\ sessions_db = <<>>
    /\ uuids = 0
    /\ response = Unset
    /\ request = Unset
    /\ session_state = FreshState(app_generate_deal_parameters(DrawSeq(0, 6)))

NextStream ==
    \/ \E student_id \in {<<>>, <<65>>} : NewChat(student_id)
    \/ /\ Rounds(session_state.history) < MaxTurns
       /\ \E user_input \in { <<WORD>>, <<AGREE>> }, outcome \in StreamOutcomes :
             ChatInput(user_input, outcome)
    \/ ConfirmAgreement
    \/ ContinueNegotiating
    \/ StartNewNegotiation

SpecStream == InitStream /\ [][NextStream]_vars

\* C17: once the learner has confirmed an agreement (final_agreement set,
\* which the code does together with deal_closed = True), final_agreement is
\* not assigned again and no message is appended to the history until the
\* session is cleared.
C17_ConfirmedIsFinal ==
    [][(session_state.final_agreement.present /\ lastOp' # "new_chat")
          => /\ session_state'.final_agreement = session_state.final_agreement
             /\ Len(session_state'.history) = Len(session_state.history)]_vars

(***************************************************************************)
(* backend/app.py: the rule-based seller Alex.  A buyer message is the set *)
(* of phrases its lower-cased text contains, among those the code looks    *)
(* for, and the list of its whitespace-separated tokens that are digits.   *)
(***************************************************************************)
MaxRuleRequests == 4

Says(user_message, words) == user_message.phrases \cap words # {}

acceptance_words == {"accept", "deal", "agreed", "yes, let's do it"}

walk_away_words == {"no deal", "walk away", "never mind", "forget it"}

\* a process_message or _generate_negotiation_response outcome
Outcome(session, reply) == [session |-> session, response |-> reply]

\* _close_deal: the reply is returned, not added to the messages
_close_deal(s) ==
    Outcome([s EXCEPT !.deal_closed = TRUE, !.status = "completed"],
            Reply("we have a deal", <<s.alex_quantity, s.alex_price, s.alex_delivery>>))

concession_raise(alex_price, proposed_price) ==
    0 - Min2(5, (alex_price - proposed_price) \div 3)

\* the small concession of a counter-offer
concession(alex_price, proposed_price) ==
    Min2(5, (alex_price - proposed_price) \div 3)

\* Tactic 1, with numbers[0] as the proposed price
PriceTactic(s, proposed_price) ==
    IF proposed_price < s.deal_params.min_price
    THEN Outcome(s, Reply("below my cost", <<proposed_price, s.alex_price>>))
    ELSE IF proposed_price < s.alex_price /\ s.concession_count < s.max_concessions
    THEN LET price == s.alex_price - concession(s.alex_price, proposed_price)
         IN  Outcome([s EXCEPT !.alex_price = price,
                               !.concession_count = s.concession_count + 1],
                     Reply("I can come down", <<price>>))
    ELSE Outcome([s EXCEPT !.current_offer =
                              [present |-> TRUE, price |-> s.alex_price,
                               quantity |-> s.alex_quantity,
                               delivery |-> s.alex_delivery]],
                 Reply("works for me", <<proposed_price, s.alex_quantity,
                                         s.alex_delivery>>))

\* Tactic 2, with max(numbers) as the proposed quantity
QuantityTactic(s, proposed_qty) ==
    IF proposed_qty >= s.deal_params.min_quantity
    THEN IF proposed_qty > s.alex_quantity
         THEN LET discount == IF 2 * proposed_qty > 3 * s.alex_quantity THEN 2 ELSE 1
                  price    == Max2(s.deal_params.min_price, s.alex_price - discount)
              IN  Outcome([s EXCEPT !.alex_price = price,
                                    !.alex_quantity = proposed_qty],
                          Reply("volume discount", <<proposed_qty, price>>))
         ELSE Outcome([s EXCEPT !.alex_quantity = proposed_qty],
                      Reply("I can do", <<proposed_qty, s.alex_price>>))
    ELSE Outcome(s, Reply("at least", <<s.deal_params.min_quantity>>))

\* Tactic 3, with numbers[0] as the proposed delivery
DeliveryTactic(s, proposed_delivery) ==
    IF proposed_delivery < s.deal_params.min_delivery
    THEN Outcome(s, Reply("rush delivery", <<proposed_delivery, s.alex_price + 5>>))
    ELSE Outcome([s EXCEPT !.alex_delivery = proposed_delivery],
                 Reply("I can accommodate", <<proposed_delivery, s.alex_price>>))

\* Tactic 4
InformationTactic(s, user_message) ==
    IF Says(user_message, {"warranty"})
    THEN Outcome(s, Reply("warranty", <<s.deal_params.warranty_months>>))
    ELSE IF Says(user_message, {"quality", "grade"})
    THEN Outcome(s, Reply("grade", <<s.deal_params.quality_grade>>))
    ELSE IF Says(user_message, {"stock", "available"})
    THEN Outcome(s, Reply("in stock", <<s.deal_params.target_quantity * 2>>))
    ELSE Outcome(s, Reply("what information", <<>>))

\* the four encouraging responses
responses(s) ==
    << Reply("I'm at", <<s.alex_price, s.alex_quantity>>),
       Reply("tell me more", <<>>),
       Reply("make this work", <<>>),
       Reply("my current offer stands", <<s.alex_price>>) >>

\* random.choice(seq): the element a draw u selects
Choice(seq, u) == seq[1 + (Len(seq) * u) \div (GridN + 1)]

\* whether the message reaches random.choice
Default(s, user_message) ==
    /\ ~Says(user_message, acceptance_words)
    /\ ~Says(user_message, walk_away_words)
    /\ ~(Says(user_message, {"price", "$"}) /\ user_message.numbers # <<>>)
    /\ ~(Says(user_message, {"quantity", "units"}) /\ user_message.numbers # <<>>)
    /\ ~(Says(user_message, {"delivery", "days", "time"}) /\ user_message.numbers # <<>>)
    /\ ~Says(user_message, {"?"})

_generate_negotiation_response(s, user_message, u) ==
    LET numbers == user_message.numbers
    IN  IF Says(user_message, {"price", "$"}) /\ numbers # <<>>
        THEN PriceTactic(s, numbers[1])
        ELSE IF Says(user_message, {"quantity", "units"}) /\ numbers # <<>>
        THEN QuantityTactic(s, MaxOf({numbers[i] : i \in DOMAIN numbers}))
        ELSE IF Says(user_message, {"delivery", "days", "time"}) /\ numbers # <<>>
        THEN DeliveryTactic(s, numbers[1])
        ELSE IF Says(user_message, {"?"})
        THEN InformationTactic(s, user_message)
        ELSE Outcome(s, Choice(responses(s), u))

\* appends Alex's response to the messages of an outcome
Added(outcome) ==
    Outcome([outcome.session EXCEPT
                !.messages = AddMessage(outcome.session.messages, "alex",
                                        outcome.response)],
            outcome.response)

\* NegotiationSession.process_message; u is the draw random.choice would make
process_message(session, user_message, u) ==
    LET s == [session EXCEPT
                 !.messages = AddMessage(session.messages, "user", user_message),
                 !.turn_count = session.turn_count + 1]
    IN  IF Says(user_message, acceptance_words)
        THEN IF s.current_offer.present
             THEN _close_deal(s)
             ELSE Added(Outcome(s, Reply("need to know what terms", <<>>)))
        ELSE IF Says(user_message, walk_away_words)
        THEN Added(Outcome([s EXCEPT !.status = "failed"],
                           Reply("another time", <<>>)))
        ELSE Added(_generate_negotiation_response(s, user_message, u))

\* int(n / d * 100), truncated towards zero; on the quotients met here
\* (price savings up to the possible savings, quantities over the targets
\* drawn) the float product has the integer part of the exact one
IntPct(n, d) ==
    IF n >= 0 THEN (n * 100) \div d ELSE 0 - (((0 - n) * 100) \div d)

Clamp_none(x) == x

\* max(0, min(100, x))
Clamp(x) == Max2(0, Min2(100, x))

\* relationship_score after the loop over the first n messages
RECURSIVE RelationshipScore(_, _)
RelationshipScore(messages, n) ==
    IF n = 0 THEN 70
    ELSE LET before == RelationshipScore(messages, n - 1)
         IN  IF /\ messages[n].role = "user"
                /\ Says(messages[n].content, {"please", "thank", "appreciate"})
             THEN Min2(100, before + 5)
             ELSE before

\* NegotiationSession.evaluate; overall_score in tenths of a point
NegotiationSession_evaluate(s) ==
    IF ~s.deal_closed
    THEN [deal_completed |-> FALSE]
    ELSE LET price_saved          == s.deal_params.base_price - s.alex_price
             max_possible_savings == s.deal_params.base_price - s.deal_params.min_price
             price_score          == Clamp(IF max_possible_savings > 0
                                           THEN IntPct(price_saved, max_possible_savings)
                                           ELSE 0)
             efficiency_score     == Max2(0, 100 - s.turn_count * 10)
             relationship_score   == RelationshipScore(s.messages, Len(s.messages))
             value_score          == Clamp(IntPct(s.alex_quantity,
                                                  s.deal_params.target_quantity))
             strategic_score      == Max2(0, 100 - s.concession_count * 15)
             total                == price_score + efficiency_score + relationship_score
                                       + value_score + strategic_score
         IN  [deal_completed |-> TRUE,
              overall_score |-> (total * Tenths) \div 5,
              metrics |-> [price_achievement |-> price_score,
                           efficiency |-> efficiency_score,
                           relationship_building |-> relationship_score,
                           value_creation |-> value_score,
                           strategic_negotiation |-> strategic_score],
              deal_details |-> [final_price |-> s.alex_price,
                                base_price |-> s.deal_params.base_price,
                                quantity |-> s.alex_quantity,
                                delivery_days |-> s.alex_delivery,
                                turns_taken |-> s.turn_count]]

\* POST /api/chat of backend/app.py
rule_send_message(session_id, user_message) ==
    /\ service = "rule"
    /\ request' = Request("send_message", session_id)
    /\ IF session_id \notin DOMAIN sessions_db
       THEN /\ response' = NotFound
            /\ UNCHANGED <<sessions_db, rng>>
       ELSE LET session == sessions_db[session_id]
            IN  IF session.status # "active" /\ ~session.deal_closed
                THEN /\ response' = [status |-> 400]
                     /\ UNCHANGED <<sessions_db, rng>>
                ELSE LET outcome == process_message(session, user_message,
                                                    RandomValue(RandomNext(rng)))
                     IN  /\ sessions_db' = Store(sessions_db, session_id,
                                                 outcome.session)
                         /\ rng' = IF Default(session, user_message)
                                   THEN RandomNext(rng) ELSE rng
                         /\ response' =
                               [status |-> 200,
                                body |-> [session_id |-> outcome.session.session_id,
                                          alex_response |-> outcome.response,
                                          status |-> outcome.session.status,
                                          turn_count |-> outcome.session.turn_count,
                                          deal_closed |-> outcome.session.deal_closed,
                                          evaluation |->
                                              IF outcome.session.deal_closed
                                              THEN NegotiationSession_evaluate(
                                                       outcome.session)
                                              ELSE [deal_completed |-> None]]]
    /\ lastOp' = "send_message"
    /\ UNCHANGED <<draws, params, rngOrigin, hashSalt, service, genLog, history,
                   result, evaluation, agreed_terms, uuids, session_state>>

\* NegotiationSession.to_dict
to_dict(s) ==
    [session_id |-> s.session_id,
     student_id |-> s.student_id,
     status |-> s.status,
     messages |-> s.messages,
     turn_count |-> s.turn_count,
     deal_closed |-> s.deal_closed,
     current_state |-> [price |-> s.alex_price, quantity |-> s.alex_quantity,
                        delivery |-> s.alex_delivery],
     evaluation |-> IF s.deal_closed THEN NegotiationSession_evaluate(s)
                    ELSE [deal_completed |-> None]]

\* GET /api/sessions/{session_id} of backend/app.py
rule_get_session(session_id) ==
    /\ service = "rule"
    /\ request' = Request("get_session", session_id)
    /\ response' = IF session_id \notin DOMAIN sessions_db
                   THEN NotFound
                   ELSE [status |-> 200, body |-> to_dict(sessions_db[session_id])]
    /\ lastOp' = "get_session"
    /\ UNCHANGED <<draws, params, rng, rngOrigin, hashSalt, service, genLog, history,
                   result, evaluation, agreed_terms, sessions_db, uuids,
                   session_state>>

(***************************************************************************)
(* SpecRule: the endpoints of backend/app.py in one process                *)
(***************************************************************************)
Text(phrases, numbers) == [phrases |-> phrases, numbers |-> numbers]

\* 'price 100', 'price 60', 'I accept', 'no deal' (which contains 'deal'),
\* 'forget it', '3000 units please', 'delivery in 20 days ?', 'hello'
RuleMessages ==
    { Text({"price"}, <<100>>),
      Text({"price"}, <<60>>),
      Text({"accept"}, <<>>),
      Text({"no deal", "deal"}, <<>>),
      Text({"forget it"}, <<>>),
      Text({"units", "please"}, <<3000>>),
      Text({"delivery", "days", "?"}, <<20>>),
      Text({}, <<>>) }

RECURSIVE TurnsIn(_, _)
\* the buyer messages processed so far, over the sessions 1..n
TurnsIn(db, n) == IF n = 0 THEN 0 ELSE db[n].turn_count + TurnsIn(db, n - 1)

InitRule ==
    /\ SvcIdle
    /\ draws = <<>>
    /\ params = NoParams
    /\ lastOp = "init"
    /\ rng = 0
    /\ rngOrigin = NoSeed
    /\ hashSalt = 0
    /\ service = "rule"
    /\ genLog = <<>>
    /\ history = <<>>
    /\ result = NoResult
    /\ evaluation = NoEvaluation

\* the sessions created and the buyer messages processed so far
RuleRequests == uuids + TurnsIn(sessions_db, uuids)

\* a request names a session of the table or the next id, which is in no table
NextRule ==
    \/ /\ RuleRequests < MaxRuleRequests
       /\ \E student_id \in { <<65>> } : create_session(student_id)
    \/ /\ RuleRequests < MaxRuleRequests
       /\ \E session_id \in 1..(uuids + 1), user_message \in RuleMessages :
             rule_send_message(session_id, user_message)
    \/ \E session_id \in 1..(uuids + 1) : rule_get_session(session_id)

SpecRule == InitRule /\ [][NextRule]_vars

\* the evaluations the service can return: every stored closed session's
ClosedSessions == {k \in DOMAIN sessions_db : sessions_db[k].deal_closed}

MetricsInRange(e) ==
    /\ \A m \in DOMAIN e.metrics : e.metrics[m] >= 0 /\ e.metrics[m] <= 100
    /\ DOMAIN e.metrics = {"price_achievement", "efficiency", "relationship_building",
                           "value_creation", "strategic_negotiation"}
    /\ e.overall_score >= 0
    /\ e.overall_score <= 100 * Tenths

\* C20: for every closed session reachable by chat messages, each of the five
\* evaluation metrics and the overall score lies in [0, 100].
C20_MetricsInRange ==
    \A k \in ClosedSessions :
        /\ NegotiationSession_evaluate(sessions_db[k]).deal_completed = TRUE
        /\ MetricsInRange(NegotiationSession_evaluate(sessions_db[k]))

\* a deal closed on more units than the target quantity, where the quantity
\* ratio is above 100 percent before it is clamped, returned by the chat
C20_Witness ==
    /\ lastOp = "send_message"
    /\ response.status = 200
    /\ response.body.deal_closed
    /\ \E k \in ClosedSessions :
          /\ sessions_db[k].alex_quantity > sessions_db[k].deal_params.target_quantity
          /\ response.body.evaluation = NegotiationSession_evaluate(sessions_db[k])
          /\ response.body.evaluation.metrics.value_creation = 100

\* a chat or get request for a session id that is not in the table
UnknownId(req) ==
    /\ req # Unset
    /\ req.op \in {"send_message", "get_session"}
    /\ req.session_id \notin DOMAIN sessions_db

\* C21: a chat or get request that names a session id not in the session table
\* is answered with 404 and changes nothing: no session is created and no
\* session's transcript or state is modified.
C21_UnknownIdChangesNothing ==
    /\ [](UnknownId(request) => response.status = 404)
    /\ [][UnknownId(request') => (sessions_db' = sessions_db /\ uuids' = uuids)]_vars

\* a get request for an unknown id, sent while a session with messages exists
C21_Witness ==
    /\ UnknownId(request)
    /\ request.op = "get_session"
    /\ \E k \in DOMAIN sessions_db : sessions_db[k].turn_count > 0

(***************************************************************************)
(* SpecText: the extraction functions applied to one text                  *)
(***************************************************************************)
MaxTextLen == 3

\* a four-digit and a two-digit number, and the words the patterns look for
TextTokens == {1500, 12, KILO, UNITS, ORDER, WORD}

InitText ==
    /\ SvcIdle
    /\ draws = <<>>
    /\ params = NoParams
    /\ lastOp = "init"
    /\ rng = 0
    /\ rngOrigin = NoSeed
    /\ hashSalt = 0
    /\ service = "none"
    /\ genLog = <<>>
    /\ history \in {<<[role |-> "user", content |-> text]>> :
                        text \in UNION {[1..n -> TextTokens] : n \in 0..MaxTextLen}}
    /\ result = NoResult
    /\ evaluation = NoEvaluation

\* extract_price, extract_delivery and extract_volume of the text
ExtractTerms ==
    /\ lastOp = "init"
    /\ result' = Returned(Extract(history[1].content))
    /\ lastOp' = "extract"
    /\ UNCHANGED <<draws, params, rng, rngOrigin, hashSalt, service, genLog, history,
                   evaluation>>
    /\ UNCHANGED svcVars

NextText == ExtractTerms

SpecText == InitText /\ [][NextText]_vars

\* the volume the three rules give when each returns the number it matched
ClaimedVolume(text) ==
    LET thousand == NumberBefore(text, KILO)
        units    == NumberBefore(text, UNITS)
        bare     == {i \in 1..Len(text) : text[i] >= 0}
    IN  IF thousand # {} THEN text[MinOf(thousand)] * 1000
        ELSE IF units # {} THEN text[MinOf(units)]
        ELSE IF (\E i \in 1..Len(text) : text[i] \in {UNITS, ORDER}) /\ bare # {}
        THEN text[MinOf(bare)]
        ELSE None

\* C22: extract_volume returns at the first of its three rules that matches:
\* a number followed by 'thousand' or 'k' (times 1000), else a number followed
\* by 'unit(s)', else the first bare number of a text with a volume keyword,
\* else absent.
C22_VolumePriority ==
    lastOp = "extract" => result.terms.volume = ClaimedVolume(history[1].content)

\* C23: once a session's deal is closed, its final price, quantity and
\* delivery and the evaluation computed from them are the same after every
\* later step, whatever chat requests are sent to the session.
C23_ClosedDealIsFinal ==
    [][\A k \in ClosedSessions :
          /\ sessions_db'[k].alex_price = sessions_db[k].alex_price
          /\ sessions_db'[k].alex_quantity = sessions_db[k].alex_quantity
          /\ sessions_db'[k].alex_delivery = sessions_db[k].alex_delivery
          /\ NegotiationSession_evaluate(sessions_db'[k])
                = NegotiationSession_evaluate(sessions_db[k])]_vars

(***************************************************************************)
(* SpecHaggle: one session of backend/app.py and a long exchange about     *)
(* price and quantity                                                      *)
(***************************************************************************)
MaxHaggle == 7

\* 'price 60', 'price 70', '3000 units please'
HaggleMessages ==
    { Text({"price"}, <<60>>), Text({"price"}, <<70>>),
      Text({"units", "please"}, <<3000>>) }

NextHaggle ==
    \/ /\ uuids = 0
       /\ \E student_id \in { <<65>>, <<66>> } : create_session(student_id)
    \/ /\ uuids = 1
       /\ sessions_db[1].turn_count < MaxHaggle
       /\ \E user_message \in HaggleMessages : rule_send_message(1, user_message)

SpecHaggle == InitRule /\ [][NextHaggle]_vars

\* C26: in every reachable state of a session min_price <= alex_price <=
\* base_price and concession_count <= max_concessions (5), and alex_price
\* never increases from one message to the next.
C26_PriceWithinBounds ==
    /\ [](\A k \in DOMAIN sessions_db :
             /\ sessions_db[k].deal_params.min_price <= sessions_db[k].alex_price
             /\ sessions_db[k].alex_price <= sessions_db[k].deal_params.base_price
             /\ sessions_db[k].concession_count <= sessions_db[k].max_concessions
             /\ sessions_db[k].max_concessions = 5)
    /\ [][\A k \in DOMAIN sessions_db :
             sessions_db'[k].alex_price <= sessions_db[k].alex_price]_vars

\* the sixth price below the seller's after five concessions, which is
\* answered without a further concession
C26_Witness ==
    /\ lastOp = "send_message"
    /\ \E k \in DOMAIN sessions_db :
          LET s == sessions_db[k]
          IN  /\ s.concession_count = s.max_concessions
              /\ s.alex_price < s.deal_params.base_price
              /\ s.messages[Len(s.messages)].content.kind = "works for me"
              /\ s.messages[Len(s.messages) - 1].content.numbers[1] < s.alex_price

\* the sessions whose last seller entry says that the proposed price works
\* and asks to confirm it
AskedToConfirm ==
    {k \in DOMAIN sessions_db :
        LET last == sessions_db[k].messages[Len(sessions_db[k].messages)]
        IN  last.role = "alex" /\ last.content.kind = "works for me"}

\* C27: whenever the seller replies that a proposed price works and asks to
\* confirm it, the price recorded in current_offer is the proposed price stated
\* in that reply, and a deal closed by the next message closes at that price.
C27_OfferIsStatedPrice ==
    /\ [](\A k \in AskedToConfirm :
             LET s == sessions_db[k]
             IN  /\ s.current_offer.present
                 /\ s.current_offer.price = s.messages[Len(s.messages)].content.nums[1])
    /\ [][\A k \in AskedToConfirm :
             (sessions_db'[k].deal_closed /\ ~sessions_db[k].deal_closed)
                => sessions_db'[k].alex_price
                      = sessions_db[k].messages[Len(sessions_db[k].messages)].content.nums[1]]_vars

\* the last buyer entry of a session's transcript
LastBuyerEntry(s) ==
    s.messages[MaxOf({i \in 1..Len(s.messages) : s.messages[i].role = "user"})]

\* C28: a processed buyer message that contains a walk-away phrase ("no deal",
\* "walk away", "never mind", "forget it") leaves the session with status
\* failed and closes no deal.
C28_WalkAwayFails ==
    [][(/\ lastOp' = "send_message"
        /\ response'.status = 200
        /\ Says(LastBuyerEntry(sessions_db'[request'.session_id]).content,
                walk_away_words))
          => /\ sessions_db'[request'.session_id].status = "failed"
             /\ sessions_db'[request'.session_id].deal_closed
                   = sessions_db[request'.session_id].deal_closed]_vars

\* C29: after every processed chat message the stored transcript ends with a
\* seller entry whose content is the response returned to the caller, and
\* turn_count is the number of buyer entries of the transcript.
C29_TranscriptEndsWithReply ==
    (lastOp = "send_message" /\ response.status = 200)
       => LET s == sessions_db[request.session_id]
          IN  /\ s.messages[Len(s.messages)].role = "alex"
              /\ s.messages[Len(s.messages)].content = response.body.alex_response
              /\ s.turn_count
                    = Cardinality({i \in 1..Len(s.messages) : s.messages[i].role = "user"})

\* C24: the agreed terms the evaluate endpoint hands to the evaluator are the
\* terms validate_agreement resolves for the history of the same session: its
\* price and its delivery, with a volume that is a number and not the volume
\* dictionary of the generated parameters.
C24_EvaluatedTermsAreValidated ==
    EvaluatorRan =>
       LET session  == sessions_db[request.session_id]
           resolved == validate_agreement(session.history).terms
       IN  /\ resolved.price # None
           /\ agreed_terms.price = Cents * resolved.price
           /\ agreed_terms.delivery = resolved.delivery
           /\ "volume" \notin DOMAIN session.deal_params

\* C30: GET /api/deals reports a session as a completed deal only if
\* validate_agreement reports a complete agreement, all three terms present,
\* for that session's current history.
C30_CompletedMeansAgreed ==
    lastOp = "list_completed_deals" =>
       \A sid \in response.completed_deals :
          /\ validate_agreement(sessions_db[sid].history).is_valid
          /\ validate_agreement(sessions_db[sid].history).missing = <<>>

\* C25: whenever pending_confirmation is set, its price, its delivery and its
\* volume are all present, also when the validated terms were replaced by the
\* cached last seller proposal.
C25_PendingTermsComplete ==
    session_state.pending_confirmation.present
       => /\ session_state.pending_confirmation.price # None
          /\ session_state.pending_confirmation.delivery # None
          /\ session_state.pending_confirmation.volume # None

====
